---- MODULE Spec2Model ----
(***************************************************************************)
(* envfy / pushenv: encrypted .env sync.  A model of the key derivation    *)
(* and device keyring (utils/config), the AES-256-GCM envelope             *)
(* (utils/crypto), the remote addressing scheme (utils/r2-client) and the  *)
(* init / push / pull / run commands that compose them.                    *)
(*                                                                         *)
(* Values.  A Buffer and a string are tagged tuples, so that every         *)
(* encoding and decoding is computed and never assumed to be the identity: *)
(*   buffers  <<"nil">>                zero-length buffer                  *)
(*            <<"rand", n>>            n-th output of crypto.randomBytes   *)
(*            <<"pbkdf2", pass, salt>> pbkdf2Sync(pass, salt, ...)         *)
(*            <<"ct", key, iv, text>>  AES-GCM ciphertext of a non-empty   *)
(*                                     text under key and iv               *)
(*            <<"tag", key, iv, ct>>   the GCM tag of ct under key and iv  *)
(*            <<"flip", b>>            b with one byte changed             *)
(*            <<"asB64", s>>           Buffer.from(s, "base64") of a       *)
(*                                     string s that is not base64 output  *)
(*            <<"asHex", s>>           Buffer.from(s, "hex") of a string   *)
(*                                     that is not hex output              *)
(*   strings  <<"empty">>              ""                                  *)
(*            <<"hex", b>>, <<"b64", b>>  b.toString("hex" / "base64")     *)
(*            <<"text", lines>>        a non-empty text, its lines         *)
(*            <<"pass", n>>            a passphrase                        *)
(*            <<"join", fields>>       fields joined by ":"                *)
(***************************************************************************)
EXTENDS Integers, Sequences, FiniteSets, TLC

\* ------------------------------------------------------------------ bounds
\* Keyring operations in one behaviour of the keyring experiment.
MaxOps == 4
\* Calls of crypto.randomBytes in one behaviour (a salt per init, an IV per push).
MaxRand == 4
\* Commands in one behaviour; every command reads the clock.
MaxClock == 5

\* ------------------------------------------------------------ encodings
Nil == <<"nil">>
EmptyStr == <<"empty">>

\* buf.toString("hex")
ToHex(b) == IF b = Nil THEN EmptyStr ELSE <<"hex", b>>

\* buf.toString("base64")
ToBase64(b) == IF b = Nil THEN EmptyStr ELSE <<"b64", b>>

\* Buffer.from(s, "hex"): the bytes only when s is hex output.
FromHex(s) ==
  IF s = EmptyStr THEN Nil
  ELSE IF s[1] = "hex" THEN s[2]
  ELSE <<"asHex", s>>

\* Buffer.from(s, "base64"): the bytes only when s is base64 output.  A hex
\* string is made of base64 characters, so it decodes, to other bytes.
FromBase64(s) ==
  IF s = EmptyStr THEN Nil
  ELSE IF s[1] = "b64" THEN s[2]
  ELSE <<"asB64", s>>

\* s.split(":")
Split(s) == IF s[1] = "join" THEN s[2] ELSE <<s>>

\* fields.join(":")
Join(fields) == IF Len(fields) = 1 THEN fields[1] ELSE <<"join", fields>>

\* `${a}:${b}`
Colon(a, b) == Join(Split(a) \o Split(b))

\* s.indexOf(":") === -1
NoColon(s) == Len(Split(s)) = 1

\* s.slice(0, s.indexOf(":"))
BeforeColon(s) == Split(s)[1]

\* s.slice(s.indexOf(":") + 1)
AfterColon(s) == Join(Tail(Split(s)))

\* ---------------------------------------------------------------- crypto
\* A faulty derivation: the passphrase itself used as the key.
deriveKeyIsPassphrase(passphrase, salt) ==
  [key |-> passphrase, salt |-> salt]

\* deriveKeyFromPassphrase(passphrase, salt): PBKDF2 is a function of both.
deriveKeyFromPassphrase(passphrase, salt) ==
  [key |-> <<"pbkdf2", passphrase, salt>>, salt |-> salt]

\* cipher.update(plaintext) + cipher.final(): as many bytes as the plaintext.
GcmSeal(key, iv, plaintext) ==
  IF plaintext = EmptyStr THEN Nil ELSE <<"ct", key, iv, plaintext>>

\* cipher.getAuthTag()
GcmTag(key, iv, ct) == <<"tag", key, iv, ct>>

\* decipher.update(ct) + decipher.final() once the tag has verified.
GcmOpen(key, iv, ct) ==
  IF ct = Nil THEN EmptyStr
  ELSE IF ct[1] = "ct" /\ ct[2] = key /\ ct[3] = iv THEN ct[4]
  ELSE <<"text", <<"garbage">>>>

\* encrypt(plaintext, key), iv being the crypto.randomBytes(IV_LENGTH) it draws.
encrypt(plaintext, key, iv) ==
  LET ct == GcmSeal(key, iv, plaintext)
  IN  Join(<<ToHex(iv), ToHex(GcmTag(key, iv, ct)), ToHex(ct)>>)

\* A field of the destructured split: undefined and "" are both falsy.
Falsy(fields, i) == i > Len(fields) \/ fields[i] = EmptyStr

\* decrypt(encryptedData, key): the plaintext, or the error it throws.
decrypt(encryptedData, key) ==
  LET f == Split(encryptedData)
  IN  IF Falsy(f, 1) \/ Falsy(f, 2) \/ Falsy(f, 3)
      THEN [ok |-> FALSE, err |-> "format", plaintext |-> EmptyStr]
      ELSE LET iv == FromHex(f[1])
               authTag == FromHex(f[2])
               ct == FromHex(f[3])
           IN  IF authTag = GcmTag(key, iv, ct)
               THEN [ok |-> TRUE, err |-> "none", plaintext |-> GcmOpen(key, iv, ct)]
               ELSE [ok |-> FALSE, err |-> "auth", plaintext |-> EmptyStr]

\* --------------------------------------------------------------- keyring
\* The device keyring file ~/.envfy/keys.json holds { keys: KeyEntry[] }: a
\* sequence of [projectId, salt, key, createdAt]; a missing file reads as <<>>.
UndefinedEntry == [projectId |-> 0, salt |-> EmptyStr, key |-> EmptyStr, createdAt |-> 0]

\* keys.findIndex((k) => k.projectId === projectId), 0 for -1
FindIndex(keys, projectId) ==
  LET hits == {i \in 1..Len(keys) : keys[i].projectId = projectId}
  IN  IF hits = {} THEN 0 ELSE CHOOSE i \in hits : \A j \in hits : i <= j

\* A faulty save: the entry is pushed without looking for an existing one.
saveKeyEntryAppend(keys, entry) == Append(keys, entry)

\* saveKeyEntry(entry) on a keyring file holding keys: the file it writes.
saveKeyEntry(keys, entry) ==
  LET existingIndex == FindIndex(keys, entry.projectId)
  IN  IF existingIndex > 0
      THEN [keys EXCEPT ![existingIndex] = entry]
      ELSE Append(keys, entry)

\* deleteKeyEntry(projectId): the file afterwards (unwritten when nothing matched).
deleteKeyEntry(keys, projectId) ==
  SelectSeq(keys, LAMBDA k : k.projectId # projectId)

\* getKeyEntry(projectId): the first matching entry, or undefined.
getKeyEntry(keys, projectId) ==
  LET i == FindIndex(keys, projectId)
  IN  IF i > 0 THEN [found |-> TRUE, entry |-> keys[i]]
      ELSE [found |-> FALSE, entry |-> UndefinedEntry]

\* ---------------------------------------------------------- remote store
\* The bucket is a function from object keys to bodies.  A key is its path
\* segments: {projectId}/{stage}/env.encrypted or {projectId}/env.encrypted.
DEFAULT_STAGE == "development"

\* getR2Key(projectId, stage)
getR2Key(projectId, stage) == <<projectId, stage, "env.encrypted">>

\* getLegacyR2Key(projectId)
getLegacyR2Key(projectId) == <<projectId, "env.encrypted">>

\* client.send(new PutObjectCommand({Key, Body}))
PutObject(bucket, key, body) ==
  [k \in DOMAIN bucket \cup {key} |-> IF k = key THEN body ELSE bucket[k]]

\* client.send(new GetObjectCommand / HeadObjectCommand({Key})): the request to a
\* key in unreachable throws a transport error, to a missing key a not-found error.
Send(bucket, key, unreachable) ==
  IF key \in unreachable THEN "error"
  ELSE IF key \in DOMAIN bucket THEN "ok"
  ELSE "notfound"

\* uploadToR2(projectId, encryptedData, stage) of the stage-aware client.
uploadToR2(bucket, projectId, encryptedData, stage) ==
  PutObject(bucket, getR2Key(projectId, stage), encryptedData)

\* uploadToR2(projectId, encryptedData) of src/utils/r2-client.ts, which knows no stage.
uploadToR2Unstaged(bucket, projectId, encryptedData) ==
  PutObject(bucket, <<projectId, "env.encrypted">>, encryptedData)

\* A faulty download: the stage key only, no legacy fallback.
downloadFromR2NoFallback(bucket, projectId, stage, unreachable) ==
  LET stageKey == <<projectId, stage, "env.encrypted">>
  IN  IF Send(bucket, stageKey, unreachable) = "ok"
      THEN [ok |-> TRUE, err |-> "none", body |-> bucket[stageKey],
            requests |-> <<stageKey>>]
      ELSE [ok |-> FALSE, err |-> "No data found", body |-> EmptyStr, requests |-> <<stageKey>>]

\* downloadFromR2(projectId, stage): the body, or the message of the error
\* thrown; requests are the keys asked for, in order.
downloadFromR2(bucket, projectId, stage, unreachable) ==
  LET stageKey == getR2Key(projectId, stage)
      legacyKey == getLegacyR2Key(projectId)
  IN  IF Send(bucket, stageKey, unreachable) = "ok"
      THEN [ok |-> TRUE, err |-> "none", body |-> bucket[stageKey],
            requests |-> <<stageKey>>]
      ELSE IF stage = DEFAULT_STAGE
      THEN IF Send(bucket, legacyKey, unreachable) = "ok"
           THEN [ok |-> TRUE, err |-> "none", body |-> bucket[legacyKey],
                 requests |-> <<stageKey, legacyKey>>]
           ELSE [ok |-> FALSE, err |-> "No data found", body |-> EmptyStr, requests |-> <<stageKey, legacyKey>>]
      ELSE [ok |-> FALSE, err |-> "No data found", body |-> EmptyStr, requests |-> <<stageKey>>]

\* A faulty existence check: the legacy key is tried for every stage.
existsInR2AnyStage(bucket, projectId, stage, unreachable) ==
  LET stageKey == <<projectId, stage, "env.encrypted">>
      legacyKey == <<projectId, "env.encrypted">>
  IN  IF Send(bucket, stageKey, unreachable) = "ok"
      THEN [result |-> TRUE, requests |-> <<stageKey>>]
      ELSE [result |-> Send(bucket, legacyKey, unreachable) = "ok",
            requests |-> <<stageKey, legacyKey>>]

\* existsInR2(projectId, stage)
existsInR2(bucket, projectId, stage, unreachable) ==
  LET stageKey == getR2Key(projectId, stage)
      legacyKey == getLegacyR2Key(projectId)
  IN  IF Send(bucket, stageKey, unreachable) = "ok"
      THEN [result |-> TRUE, requests |-> <<stageKey>>]
      ELSE IF stage = DEFAULT_STAGE
      THEN [result |-> Send(bucket, legacyKey, unreachable) = "ok",
            requests |-> <<stageKey, legacyKey>>]
      ELSE [result |-> FALSE, requests |-> <<stageKey>>]

\* ----------------------------------------------------------- env files
\* A text is a sequence of lines; a line is blank, a comment (with whether it
\* contains "PushEnv" or the rule character) or a KEY=VALUE pair.
Blank == <<"blank">>
Comment(pushenv, words) == <<"comment", pushenv, words>>
KV(k, v) == <<"kv", k, v>>

\* line.trim() is empty
IsBlank(line) == line[1] = "blank"

\* line.trim().startsWith("#")
IsComment(line) == line[1] = "comment"

\* line.includes("PushEnv") || line.includes(rule character)
IsPushEnvLine(line) == line[1] = "comment" /\ line[2]

\* The lines of a text: "" has the one line "".
Lines(text) == IF text = EmptyStr THEN <<Blank>> ELSE text[2]

\* lines.join("\n")
Unlines(lines) == IF lines = <<Blank>> THEN EmptyStr ELSE <<"text", lines>>

\* --------------------------------------------------------------- inputs
Passphrases == {<<"pass", 1>>, <<"pass", 2>>}
Contents == {EmptyStr, Unlines(<<KV("A", "1")>>)}
Devices == {"d1", "d2"}

\* The stages init and add-stage offer.
AVAILABLE_STAGES == <<"development", "staging", "production">>
\* The stages the commands are called with: the default one and another.
Stages == {AVAILABLE_STAGES[1], AVAILABLE_STAGES[3]}

\* The checkbox answers given to init.
InitSelections == {<<"development">>, <<"development", "production">>}

Range(seq) == {seq[i] : i \in 1..Len(seq)}

\* ---------------------------------------------------------------- state
\* clock    what new Date() returns: the number of events so far
\* rng      the number of crypto.randomBytes draws so far
\* configs  the .envfy/config.json files in existence, by projectId; a command
\*          runs in a checkout that holds one of them
\* keyring  per device, the entries of its keys.json
\* envFile  per device, the env files of its working directory, by path
\* bucket   the remote store, by object key
\* obs      what the last command did and showed (last), the passphrase each
\*          project was initialised with (secret), the device/project pairs
\*          that entered the passphrase, decrypted with it and have had no
\*          decryption failure since (unlocked), and the pairs whose cached key
\*          failed to decrypt and that have not decrypted since (evicted)
\* cx, kx   the state of the experiments that exercise one component on its
\*          own (the envelope, the keyring, the store client, ...)
VARIABLES clock, rng, configs, keyring, envFile, bucket, obs, cx, kx

sysvars == <<clock, rng, configs, keyring, envFile, bucket, obs>>
vars == <<clock, rng, configs, keyring, envFile, bucket, obs, cx, kx>>

NoLast ==
  [cmd |-> "none", dev |-> "", proj |-> 0, stage |-> "", exit |-> "",
   prompted |-> FALSE, cached |-> FALSE, dec |-> "none", exists |-> FALSE,
   body |-> EmptyStr, put |-> EmptyStr, putKey |-> <<>>, before |-> "none"]

CxIdle == [pc |-> "idle"]
KxIdle == [pc |-> "idle"]

\* The state before any command has run.
SysInit ==
  /\ clock = 0
  /\ rng = 0
  /\ configs = <<>>
  /\ keyring = [d \in Devices |-> <<>>]
  /\ envFile = [d \in Devices |-> <<>>]
  /\ bucket = <<>>
  /\ obs = [last |-> NoLast, secret |-> <<>>, unlocked |-> {}, evicted |-> {}]

\* A command ends: time has passed and last tells what it did.
Done(last) ==
  /\ clock' = clock + 1
  /\ obs' = [obs EXCEPT !.last = last]
  /\ UNCHANGED <<cx, kx>>

\* A faulty early return: the device keyrings are emptied on the way out.
QuitForgetting(last) ==
  /\ Done(last)
  /\ keyring' = [d \in Devices |-> <<>>]
  /\ UNCHANGED <<rng, configs, envFile, bucket>>

\* A command ends having changed nothing.
Quit(last) ==
  /\ Done(last)
  /\ UNCHANGED <<rng, configs, keyring, envFile, bucket>>

\* fs.writeFileSync(path, content)
WriteFile(files, path, content) ==
  [f \in DOMAIN files \cup {path} |-> IF f = path THEN content ELSE files[f]]

\* ----------------------------------------------------------------- init
\* The default answer to "Where is your <stage> .env file located?".
defaultEnvPath(selectedStages, stage) ==
  IF Len(selectedStages) = 1 THEN <<".env">> ELSE <<".env", stage>>

\* `# ${stage.toUpperCase()} environment variables\n`
StubFile(stage) == Unlines(<<Comment(FALSE, <<"environment variables", stage>>), Blank>>)

\* The key entry init saves: salt and key in base64.
initKeyEntry(projectId, derived, now) ==
  [projectId |-> projectId, salt |-> ToBase64(derived.salt),
   key |-> ToBase64(derived.key), createdAt |-> now]

\* initCommand: a new project, its config, its key in this device's keyring.
initCommand(d, passphrase, selectedStages, createEnv) ==
  /\ clock < MaxClock
  /\ rng + 2 <= MaxRand
  /\ LET derived == deriveKeyFromPassphrase(passphrase, <<"rand", rng + 1>>)
         projectId == rng + 2
         files == envFile[d]
         stages == [st \in Range(selectedStages) |->
                      [envPath |-> defaultEnvPath(selectedStages, st)]]
         created == {st \in Range(selectedStages) :
                       createEnv /\ stages[st].envPath \notin DOMAIN files}
         projectConfig == [projectId |-> projectId,
                           envPath |-> stages[selectedStages[1]].envPath,
                           createdAt |-> clock, stages |-> stages]
     IN  /\ rng' = rng + 2
         /\ configs' = [q \in DOMAIN configs \cup {projectId} |->
                          IF q = projectId THEN projectConfig ELSE configs[q]]
         /\ keyring' = [keyring EXCEPT
                          ![d] = saveKeyEntry(@, initKeyEntry(projectId, derived, clock))]
         /\ envFile' = [envFile EXCEPT ![d] =
              [f \in DOMAIN files \cup {stages[st].envPath : st \in created} |->
                 IF f \in DOMAIN files THEN files[f]
                 ELSE StubFile(CHOOSE st \in created : stages[st].envPath = f)]]
         /\ UNCHANGED <<bucket, cx, kx>>
         /\ clock' = clock + 1
         /\ obs' = [obs EXCEPT
              !.last = [NoLast EXCEPT !.cmd = "init", !.dev = d, !.proj = projectId,
                                      !.exit = "ok"],
              !.secret = [q \in DOMAIN obs.secret \cup {projectId} |->
                            IF q = projectId THEN passphrase ELSE obs.secret[q]]]

\* initCommand in an initialised project, "reinitialize?" answered no.
initCancelled(d) ==
  /\ clock < MaxClock
  /\ configs # <<>>
  /\ Quit([NoLast EXCEPT !.cmd = "init", !.dev = d, !.exit = "cancelled"])

\* ----------------------------------------------------------------- push
\* A faulty payload: the env content sent as it is behind the salt.
pushPayloadPlain(keyEntry, envContent, iv) ==
  Colon(ToHex(FromBase64(keyEntry.salt)), envContent)

\* What push uploads: the keyring entry's salt, read as base64 and written as
\* hex, in front of the envelope.
pushPayload(keyEntry, envContent, iv) ==
  LET salt == FromBase64(keyEntry.salt)
      key == FromBase64(keyEntry.key)
      encrypted == encrypt(envContent, key, iv)
  IN  Colon(ToHex(salt), encrypted)

\* The body of push: read the env file at envPath, seal it with the cached key,
\* upload it with the stage-aware client (staged) or the one that knows no stage.
pushBody(d, projectId, stage, envPath, staged) ==
  LET found == getKeyEntry(keyring[d], projectId)
      base == [NoLast EXCEPT !.cmd = "push", !.dev = d, !.proj = projectId,
                             !.stage = stage]
  IN  IF envPath \notin DOMAIN envFile[d] \/ ~found.found
      THEN Quit([base EXCEPT !.exit = "exit1"])
      ELSE /\ rng < MaxRand
           /\ LET data == pushPayload(found.entry, envFile[d][envPath], <<"rand", rng + 1>>)
              IN  \E uploadFails \in BOOLEAN :
                    /\ rng' = rng + 1
                    /\ bucket' = IF uploadFails THEN bucket
                                 ELSE IF staged THEN uploadToR2(bucket, projectId, data, stage)
                                 ELSE uploadToR2Unstaged(bucket, projectId, data)
                    /\ UNCHANGED <<configs, keyring, envFile>>
                    /\ Done([base EXCEPT !.exit = IF uploadFails THEN "exit1" ELSE "ok",
                                         !.put = data,
                                         !.putKey = IF staged THEN getR2Key(projectId, stage)
                                                    ELSE <<projectId, "env.encrypted">>])

\* pushCommand of commands/push.ts: no stage, the config's envPath, and the
\* uploadToR2 of the client it imports.
pushCommand(d, projectId) ==
  /\ clock < MaxClock
  /\ pushBody(d, projectId, "", configs[projectId].envPath, FALSE)

\* getEnvPathForStage(config, stage): the stage's path, <<>> for undefined.
getEnvPathForStage(config, stage) ==
  IF stage \in DOMAIN config.stages THEN config.stages[stage].envPath ELSE <<>>

\* push --stage: the same body on the stage's env file and the stage-aware client.
pushStage(d, projectId, stage) ==
  /\ clock < MaxClock
  /\ IF getEnvPathForStage(configs[projectId], stage) = <<>>
     THEN Quit([NoLast EXCEPT !.cmd = "push", !.dev = d, !.proj = projectId,
                              !.stage = stage, !.exit = "exit1"])
     ELSE pushBody(d, projectId, stage, getEnvPathForStage(configs[projectId], stage),
                   TRUE)

\* ---------------------------------------------------------- pull and run
\* The requests of one call that fail in transport: none, the stage key's, all.
NetCases(projectId, stage) ==
  {{}, {getR2Key(projectId, stage)},
   {getR2Key(projectId, stage), getLegacyR2Key(projectId)}}

\* The key pull and run decrypt with: the cached one, else the one derived from
\* the passphrase asked for and the payload's salt prefix; and what decrypt gives.
unlock(keys, projectId, encryptedData, passphrase) ==
  LET saltHex == BeforeColon(encryptedData)
      actualEncryptedData == AfterColon(encryptedData)
      salt == FromHex(saltHex)
      existingKeyEntry == getKeyEntry(keys, projectId)
      keyBuffer == IF existingKeyEntry.found
                   THEN FromBase64(existingKeyEntry.entry.key)
                   ELSE deriveKeyFromPassphrase(passphrase, salt).key
  IN  [shouldPersistKey |-> ~existingKeyEntry.found, saltHex |-> saltHex,
       keyBuffer |-> keyBuffer, out |-> decrypt(actualEncryptedData, keyBuffer)]

\* A faulty key step: the entry is saved with the salt in the place of the key.
persistKeySwapped(keys, projectId, u, now) ==
  IF u.out.ok /\ u.shouldPersistKey
  THEN saveKeyEntry(keys, [projectId |-> projectId, salt |-> u.saltHex,
                           key |-> ToBase64(FromHex(u.saltHex)), createdAt |-> now])
  ELSE keys

\* The keyring after the try block's key step: the entry is saved when the
\* passphrase was asked for and decrypt succeeded.
persistKey(keys, projectId, u, now) ==
  IF u.out.ok /\ u.shouldPersistKey
  THEN saveKeyEntry(keys, [projectId |-> projectId, salt |-> u.saltHex,
                           key |-> ToBase64(u.keyBuffer), createdAt |-> now])
  ELSE keys

\* A faulty catch block: the key entry is left in place.
catchBlockKeep(keys, projectId) == keys

\* The catch block: whatever was thrown, a key entry of the project is deleted.
catchBlock(keys, projectId) ==
  IF getKeyEntry(keys, projectId).found THEN deleteKeyEntry(keys, projectId) ELSE keys

\* The passphrase prompt appears only when no key is cached.
PromptAnswers(keys, projectId) ==
  IF getKeyEntry(keys, projectId).found THEN {<<"pass", 0>>} ELSE Passphrases

\* unlocked is entered by a prompted successful decryption and left by a
\* failed one; evicted is entered by a failed decryption with the cached key
\* and left by any other decryption attempt.
Unlocked(d, projectId, u) ==
  IF ~u.out.ok THEN obs.unlocked \ {<<d, projectId>>}
  ELSE IF u.shouldPersistKey THEN obs.unlocked \cup {<<d, projectId>>}
  ELSE obs.unlocked

Evicted(d, projectId, u) ==
  IF ~u.out.ok /\ ~u.shouldPersistKey THEN obs.evicted \cup {<<d, projectId>>}
  ELSE obs.evicted \ {<<d, projectId>>}

\* Where the pair stood when the command reached its decryption.
Before(d, projectId) ==
  IF <<d, projectId>> \in obs.evicted THEN "evicted"
  ELSE IF <<d, projectId>> \in obs.unlocked THEN "unlocked"
  ELSE "none"

\* The header pull writes in front of the content.
PullHeader(stage, now, envPathForStage) ==
  << Comment(TRUE, <<"rule">>), Comment(TRUE, <<"PushEnv Environment File">>),
     Comment(FALSE, <<"Stage", stage>>), Comment(FALSE, <<"Synced", now>>),
     Comment(FALSE, <<"File", envPathForStage>>), Comment(TRUE, <<"rule">>),
     Comment(FALSE, <<"DO NOT COMMIT">>), Comment(FALSE, <<"DO NOT SHARE">>),
     Comment(FALSE, <<>>) >>

\* line && !line.startsWith("#") on the trimmed line
IsContent(line) == ~IsBlank(line) /\ ~IsComment(line)

\* The 0-based index at which a loop "for i = from; ...; if content: break" stops,
\* Len(lines) when it runs to the end.
StopIndex(lines, from) ==
  LET hits == {i \in from..(Len(lines) - 1) : IsContent(lines[i + 1])}
  IN  IF hits = {} THEN Len(lines) ELSE CHOOSE i \in hits : \A j \in hits : i <= j

\* contentStart after the two header-skipping loops of pull.
contentStart(lines) ==
  LET stop1 == StopIndex(lines, 0)
      start1 == IF stop1 < Len(lines) THEN stop1 ELSE 0
      foundPushEnvHeader == \E i \in 0..(stop1 - 1) : IsPushEnvLine(lines[i + 1])
      stop2 == StopIndex(lines, start1)
  IN  IF foundPushEnvHeader /\ stop2 < Len(lines) THEN stop2 ELSE start1

\* envContentWithHeader
pulledFile(stage, now, envPathForStage, decrypted) ==
  LET lines == Lines(decrypted)
  IN  Unlines(PullHeader(stage, now, envPathForStage)
              \o SubSeq(lines, contentStart(lines) + 1, Len(lines)))

\* pullCommand(stage) in a checkout of projectId on device d.
pullCommand(d, projectId, stage) ==
  /\ clock < MaxClock
  /\ LET config == configs[projectId]
         envPathForStage == getEnvPathForStage(config, stage)
         base == [NoLast EXCEPT !.cmd = "pull", !.dev = d, !.proj = projectId,
                                !.stage = stage]
     IN  IF envPathForStage = <<>>
         THEN Quit([base EXCEPT !.exit = "exit1"])
         ELSE \E confirm \in (IF stage = "production" THEN BOOLEAN ELSE {TRUE}) :
           IF ~confirm
           THEN Quit([base EXCEPT !.exit = "cancelled"])
           ELSE \E net1 \in NetCases(projectId, stage) :
             IF ~existsInR2(bucket, projectId, stage, net1).result
             THEN Quit([base EXCEPT !.exit = "exit1"])
             ELSE \E overwrite \in (IF envPathForStage \in DOMAIN envFile[d]
                                    THEN BOOLEAN ELSE {TRUE}) :
               IF ~overwrite
               THEN Quit([base EXCEPT !.exit = "cancelled", !.exists = TRUE])
               ELSE \E net2 \in NetCases(projectId, stage) :
                 LET dl == downloadFromR2(bucket, projectId, stage, net2)
                     got == [base EXCEPT !.exists = TRUE, !.body = dl.body]
                 IN  IF ~dl.ok \/ NoColon(dl.body)
                     THEN Quit([got EXCEPT !.exit = "exit1"])
                     ELSE \E passphrase \in PromptAnswers(keyring[d], projectId) :
                       LET u == unlock(keyring[d], projectId, dl.body, passphrase)
                           keys1 == persistKey(keyring[d], projectId, u, clock)
                           tried == [got EXCEPT !.before = Before(d, projectId),
                                                !.prompted = u.shouldPersistKey,
                                                !.cached = ~u.shouldPersistKey,
                                                !.dec = IF u.out.ok THEN "ok" ELSE u.out.err]
                       IN  \E writeFails \in (IF u.out.ok THEN BOOLEAN ELSE {FALSE}) :
                             /\ keyring' = [keyring EXCEPT ![d] =
                                  IF u.out.ok /\ ~writeFails THEN keys1
                                  ELSE catchBlock(keys1, projectId)]
                             /\ envFile' = [envFile EXCEPT ![d] =
                                  IF u.out.ok /\ ~writeFails
                                  THEN WriteFile(@, envPathForStage,
                                         pulledFile(stage, clock, envPathForStage,
                                                    u.out.plaintext))
                                  ELSE @]
                             /\ UNCHANGED <<rng, configs, bucket, cx, kx>>
                             /\ clock' = clock + 1
                             /\ obs' = [obs EXCEPT
                                  !.last = [tried EXCEPT !.exit =
                                     IF u.out.ok /\ ~writeFails THEN "ok" ELSE "exit1"],
                                  !.unlocked = Unlocked(d, projectId, u),
                                  !.evicted = Evicted(d, projectId, u)]

\* runCommand(command, {stage}) up to the decrypted secrets.
runCommand(d, projectId, stage) ==
  /\ clock < MaxClock
  /\ LET base == [NoLast EXCEPT !.cmd = "run", !.dev = d, !.proj = projectId,
                                !.stage = stage]
     IN  \E net1 \in NetCases(projectId, stage) :
           IF ~existsInR2(bucket, projectId, stage, net1).result
           THEN Quit([base EXCEPT !.exit = "exit1"])
           ELSE \E net2 \in NetCases(projectId, stage) :
             LET dl == downloadFromR2(bucket, projectId, stage, net2)
                 got == [base EXCEPT !.exists = TRUE, !.body = dl.body]
             IN  IF ~dl.ok \/ NoColon(dl.body)
                 THEN Quit([got EXCEPT !.exit = "exit1"])
                 ELSE \E passphrase \in PromptAnswers(keyring[d], projectId) :
                   LET u == unlock(keyring[d], projectId, dl.body, passphrase)
                       keys1 == persistKey(keyring[d], projectId, u, clock)
                   IN  /\ keyring' = [keyring EXCEPT ![d] =
                            IF u.out.ok THEN keys1 ELSE catchBlock(keys1, projectId)]
                       /\ UNCHANGED <<rng, configs, envFile, bucket, cx, kx>>
                       /\ clock' = clock + 1
                       /\ obs' = [obs EXCEPT
                            !.last = [got EXCEPT !.before = Before(d, projectId),
                                                 !.prompted = u.shouldPersistKey,
                                                 !.cached = ~u.shouldPersistKey,
                                                 !.dec = IF u.out.ok THEN "ok" ELSE u.out.err,
                                                 !.exit = IF u.out.ok THEN "ok" ELSE "exit1"],
                            !.unlocked = Unlocked(d, projectId, u),
                            !.evicted = Evicted(d, projectId, u)]

\* ---------------------------------------------------------- environment
\* The user edits an env file.
editEnv(d, path, content) ==
  /\ clock < MaxClock
  /\ path \in DOMAIN envFile[d]
  /\ envFile[d][path] # content
  /\ envFile' = [envFile EXCEPT ![d][path] = content]
  /\ UNCHANGED <<rng, configs, keyring, bucket>>
  /\ Done([NoLast EXCEPT !.cmd = "edit", !.dev = d])

\* The store, which is not trusted, changes a byte of a stored object's tag.
corruptObject(key) ==
  /\ clock < MaxClock
  /\ key \in DOMAIN bucket
  /\ LET f == Split(bucket[key])
     IN  /\ Len(f) = 4
         /\ f[3][1] = "hex"
         /\ f[3][2][1] = "tag"
         /\ bucket' = [bucket EXCEPT
              ![key] = Join([f EXCEPT ![3] = ToHex(<<"flip", FromHex(f[3])>>)])]
  /\ UNCHANGED <<rng, configs, keyring, envFile>>
  /\ Done([NoLast EXCEPT !.cmd = "corrupt"])

Init == SysInit /\ cx = CxIdle /\ kx = KxIdle

Next ==
  \/ \E d \in Devices, passphrase \in Passphrases, sel \in InitSelections,
        createEnv \in BOOLEAN : initCommand(d, passphrase, sel, createEnv)
  \/ \E d \in Devices : initCancelled(d)
  \/ \E d \in Devices, projectId \in DOMAIN configs : pushCommand(d, projectId)
  \/ \E d \in Devices, projectId \in DOMAIN configs, stage \in Stages :
        pushStage(d, projectId, stage)
  \/ \E d \in Devices, projectId \in DOMAIN configs, stage \in Stages :
        pullCommand(d, projectId, stage)
  \/ \E d \in Devices, projectId \in DOMAIN configs, stage \in Stages :
        runCommand(d, projectId, stage)
  \/ \E d \in Devices : \E path \in DOMAIN envFile[d], content \in Contents :
        editEnv(d, path, content)
  \/ \E key \in DOMAIN bucket : corruptObject(key)

Spec == Init /\ [][Next]_vars

\* ------------------------------------------- the envelope on its own
\* Inputs of a seal / tamper / open experiment.
CryptoInputs ==
  [pc : {"start"}, P : Contents, S : Passphrases, s : {<<"rand", 1>>, <<"rand", 2>>},
   iv : {<<"rand", 3>>, <<"rand", 4>>}, env : {EmptyStr}, tampered : {"no"},
   otherKey : {FALSE}, out : {[ok |-> FALSE, err |-> "none", plaintext |-> EmptyStr]}]

CryptoKey == deriveKeyFromPassphrase(cx.S, cx.s).key

CryptoInit == cx \in CryptoInputs /\ kx = KxIdle /\ SysInit

CryptoEncrypt ==
  /\ cx.pc = "start"
  /\ cx' = [cx EXCEPT !.pc = "sealed", !.env = encrypt(cx.P, CryptoKey, cx.iv)]
  /\ UNCHANGED <<kx, sysvars>>

\* One byte of the tag field (field 2) or of the ciphertext field (field 3) is
\* changed; an empty field has no byte to change.
CryptoTamper(i) ==
  /\ cx.pc = "sealed"
  /\ cx.tampered = "no"
  /\ Split(cx.env)[i] # EmptyStr
  /\ cx' = [cx EXCEPT !.tampered = IF i = 2 THEN "tag" ELSE "ciphertext",
                      !.env = Join([Split(cx.env) EXCEPT
                                      ![i] = ToHex(<<"flip", FromHex(Split(cx.env)[i])>>)])]
  /\ UNCHANGED <<kx, sysvars>>

CryptoDecrypt(S2, s2) ==
  /\ cx.pc = "sealed"
  /\ LET k2 == deriveKeyFromPassphrase(S2, s2).key
     IN  cx' = [cx EXCEPT !.pc = "done", !.otherKey = (k2 # CryptoKey),
                          !.out = decrypt(cx.env, k2)]
  /\ UNCHANGED <<kx, sysvars>>

CryptoNext ==
  \/ CryptoEncrypt
  \/ \E i \in {2, 3} : CryptoTamper(i)
  \/ \E S2 \in Passphrases, s2 \in {<<"rand", 1>>, <<"rand", 2>>} : CryptoDecrypt(S2, s2)

SpecCrypto == CryptoInit /\ [][CryptoNext]_vars

\* C3: round trip.  Opening an untampered envelope with the key that sealed it
\* returns exactly the plaintext that was sealed, the empty string included.
C3_RoundTrip ==
  (cx.pc = "done" /\ cx.tampered = "no" /\ ~cx.otherKey)
    => (cx.out.ok /\ cx.out.plaintext = cx.P)

\* C4: tamper detection.  Opening an envelope whose tag or ciphertext had a byte
\* changed, or opening with a key other than the sealing key, throws an
\* authentication error and returns no plaintext.
C4_TamperDetected ==
  (cx.pc = "done" /\ (cx.tampered # "no" \/ cx.otherKey))
    => (~cx.out.ok /\ cx.out.err = "auth")

\* ------------------------------------------- the keyring on its own
\* saveKeyEntry and deleteKeyEntry called in any order on an empty keyring.
KrProjects == {1, 2}

KrEntries ==
  [projectId : KrProjects, salt : {ToBase64(<<"rand", 1>>)},
   key : {ToBase64(deriveKeyFromPassphrase(S, <<"rand", 1>>).key) : S \in Passphrases},
   createdAt : {0, 1}]

\* keys is the file; saved is, per project, the entry last saved and not deleted
\* since; last is the entry of the latest save; replaced tells that it met
\* another entry of its project.
KrInit ==
  /\ kx = [pc |-> "run", keys |-> <<>>, saved |-> <<>>, ops |-> 0, lastOp |-> "none",
           last |-> UndefinedEntry, replaced |-> FALSE]
  /\ cx = CxIdle
  /\ SysInit

KrSave(entry) ==
  /\ kx.ops < MaxOps
  /\ kx' = [kx EXCEPT
       !.keys = saveKeyEntry(@, entry),
       !.saved = [q \in DOMAIN @ \cup {entry.projectId} |->
                    IF q = entry.projectId THEN entry ELSE @[q]],
       !.ops = @ + 1, !.lastOp = "save", !.last = entry,
       !.replaced = \E i \in 1..Len(kx.keys) :
                      kx.keys[i].projectId = entry.projectId /\ kx.keys[i] # entry]
  /\ UNCHANGED <<cx, sysvars>>

KrDelete(projectId) ==
  /\ kx.ops < MaxOps
  /\ kx' = [kx EXCEPT
       !.keys = deleteKeyEntry(@, projectId),
       !.saved = [q \in DOMAIN @ \ {projectId} |-> @[q]],
       !.ops = @ + 1, !.lastOp = "delete", !.replaced = FALSE]
  /\ UNCHANGED <<cx, sysvars>>

KrNext ==
  \/ \E entry \in KrEntries : KrSave(entry)
  \/ \E projectId \in KrProjects : KrDelete(projectId)

SpecKeyring == KrInit /\ [][KrNext]_vars

\* ----------------------------------------------------------- properties
\* C1: every payload push uploads carries, as its salt prefix, the salt under
\* which the uploading device's key was derived, so that the key derived from
\* the project passphrase and that prefix is the sealing key and opens a
\* payload of non-empty content.
C1_SelfSufficient ==
  (obs.last.cmd = "push" /\ obs.last.exit = "ok") =>
    LET k == FromBase64(getKeyEntry(keyring[obs.last.dev], obs.last.proj).entry.key)
        prefix == FromHex(BeforeColon(obs.last.put))
        fresh == unlock(<<>>, obs.last.proj, obs.last.put, obs.secret[obs.last.proj])
    IN  /\ k[1] = "pbkdf2"
        /\ prefix = k[3]
        /\ fresh.keyBuffer = k
        /\ Split(obs.last.put)[4] # EmptyStr => fresh.out.ok

\* The fields of a stored object: three hex strings and a hex or empty one.
WireForm(body) ==
  /\ Len(Split(body)) = 4
  /\ \A i \in 1..3 : Split(body)[i][1] = "hex"
  /\ Split(body)[4][1] \in {"hex", "empty"}

\* C2: every object in the remote store has the four hex fields
\* saltHex:iv:tag:ciphertext, and what push puts is the salt in front of the
\* output of encrypt on the env file's content; no plaintext is sent.
C2_CiphertextOnly ==
  /\ \A k \in DOMAIN bucket : WireForm(bucket[k])
  /\ obs.last.putKey # <<>> =>
       /\ obs.last.cmd = "push"
       /\ WireForm(obs.last.put)
       /\ \E path \in DOMAIN envFile[obs.last.dev] :
            AfterColon(obs.last.put) =
              encrypt(envFile[obs.last.dev][path],
                      FromBase64(getKeyEntry(keyring[obs.last.dev], obs.last.proj).entry.key),
                      <<"rand", rng>>)
       /\ obs.last.exit = "ok" => bucket[obs.last.putKey] = obs.last.put

\* A push has uploaded the sealed form of a non-empty env file.
C2_Witness ==
  /\ obs.last.cmd = "push"
  /\ obs.last.exit = "ok"
  /\ Split(obs.last.put)[4] # EmptyStr
  /\ bucket[obs.last.putKey] = obs.last.put

\* C5: keyring self-healing.  A pull or run whose decryption with the cached
\* key failed leaves no keyring entry for the project, and the next pull or run
\* of that device and project that reaches its decryption asks for the
\* passphrase instead of using a cached key.
C5_SelfHealing ==
  /\ (obs.last.cmd \in {"pull", "run"} /\ obs.last.cached /\ obs.last.dec \in {"auth", "format"})
       => ~getKeyEntry(keyring[obs.last.dev], obs.last.proj).found
  /\ (obs.last.cmd \in {"pull", "run"} /\ obs.last.before = "evicted")
       => (obs.last.prompted /\ ~obs.last.cached)

\* A pull or run has asked for the passphrase after the cached key had failed.
C5_Witness ==
  /\ obs.last.cmd \in {"pull", "run"}
  /\ obs.last.before = "evicted"
  /\ obs.last.prompted

\* C6: one-time passphrase per machine.  Once a pull or run has asked for the
\* passphrase and decrypted with it, every later pull or run of that device and
\* project uses the cached key and asks nothing, as long as no decryption has
\* failed in between.
C6_OneTimePassphrase ==
  (obs.last.cmd \in {"pull", "run"} /\ obs.last.before = "unlocked")
    => (obs.last.cached /\ ~obs.last.prompted)

\* C7: the keyring holds at most one entry per project, getKeyEntry returns the
\* entry last saved for the project (none after a delete), and saving the entry
\* just saved once more changes nothing.
C7_KeyringUpsert ==
  kx.pc = "run" =>
    /\ \A q \in KrProjects :
         Cardinality({i \in 1..Len(kx.keys) : kx.keys[i].projectId = q}) <= 1
    /\ \A q \in KrProjects :
         getKeyEntry(kx.keys, q) =
           IF q \in DOMAIN kx.saved THEN [found |-> TRUE, entry |-> kx.saved[q]]
           ELSE [found |-> FALSE, entry |-> UndefinedEntry]
    /\ kx.lastOp = "save" => saveKeyEntry(kx.keys, kx.last) = kx.keys

\* A save has replaced another entry of its project next to another project's.
C7_Witness ==
  /\ kx.pc = "run"
  /\ kx.lastOp = "save"
  /\ kx.replaced
  /\ Len(kx.keys) = 2

\* A stored string that is a passphrase, or an encoding of one.
Reveals(s) == s[1] = "pass" \/ (s[1] \in {"hex", "b64"} /\ s[2][1] = "pass")

\* C8: the passphrase is never persisted.  A keyring entry holds a project id, a
\* salt, a derived key and a date; a project config holds the project id, paths
\* and a date; a remote object holds hex fields; none of them is a passphrase.
C8_PassphraseNotStored ==
  /\ \A d \in Devices : \A i \in 1..Len(keyring[d]) :
       /\ DOMAIN keyring[d][i] = {"projectId", "salt", "key", "createdAt"}
       /\ ~Reveals(keyring[d][i].salt)
       /\ ~Reveals(keyring[d][i].key)
       /\ FromBase64(keyring[d][i].key)[1] = "pbkdf2"
  /\ \A q \in DOMAIN configs :
       /\ DOMAIN configs[q] = {"projectId", "envPath", "createdAt", "stages"}
       /\ \A st \in DOMAIN configs[q].stages :
            DOMAIN configs[q].stages[st] = {"envPath"}
  /\ \A k \in DOMAIN bucket : \A i \in 1..Len(Split(bucket[k])) :
       ~Reveals(Split(bucket[k])[i])

\* A pull has asked for the passphrase, decrypted and saved the key.
C8_Witness ==
  /\ obs.last.cmd = "pull"
  /\ obs.last.prompted
  /\ obs.last.exit = "ok"
  /\ getKeyEntry(keyring[obs.last.dev], obs.last.proj).found
  /\ bucket # <<>>

\* A project whose only object is under the legacy key.
LegacyOnly(projectId) ==
  /\ getLegacyR2Key(projectId) \in DOMAIN bucket
  /\ getR2Key(projectId, DEFAULT_STAGE) \notin DOMAIN bucket

\* C9: legacy fallback.  With an object under the legacy key and none under the
\* development key, existsInR2 for development is true and downloadFromR2 for
\* development returns the legacy object, also as pull and run see them.
C9_LegacyFallback ==
  \A q \in DOMAIN configs :
    LegacyOnly(q) =>
      /\ existsInR2(bucket, q, DEFAULT_STAGE, {}).result
      /\ downloadFromR2(bucket, q, DEFAULT_STAGE, {}).ok
      /\ downloadFromR2(bucket, q, DEFAULT_STAGE, {}).body = bucket[getLegacyR2Key(q)]
      /\ (obs.last.cmd \in {"pull", "run"} /\ obs.last.proj = q
            /\ obs.last.stage = DEFAULT_STAGE /\ obs.last.dec # "none")
           => obs.last.body = bucket[getLegacyR2Key(q)]

\* A pull of development has decrypted the object found under the legacy key.
C9_Witness ==
  /\ obs.last.cmd = "pull"
  /\ obs.last.stage = DEFAULT_STAGE
  /\ obs.last.dec = "ok"
  /\ LegacyOnly(obs.last.proj)
  /\ obs.last.body = bucket[getLegacyR2Key(obs.last.proj)]

\* C10: every upload goes to the key {projectId}/{stage}/env.encrypted of some
\* stage, and no object is ever under a legacy key {projectId}/env.encrypted.
C10_PrimaryKeyOnly ==
  /\ \A q \in DOMAIN configs : getLegacyR2Key(q) \notin DOMAIN bucket
  /\ obs.last.putKey # <<>> =>
       \E stage \in Stages : obs.last.putKey = getR2Key(obs.last.proj, stage)

\* ------------------------------------------- the store client on its own
\* existsInR2 and downloadFromR2 on a store that holds, for one project, any
\* combination of a legacy object and stage objects.
R2Project == 1

R2Bodies ==
  {pushPayload(initKeyEntry(R2Project, deriveKeyFromPassphrase(<<"pass", 1>>, <<"rand", 1>>), 0),
               c, <<"rand", 2>>) : c \in Contents}

R2Keys ==
  {getLegacyR2Key(R2Project)} \cup
  {getR2Key(R2Project, AVAILABLE_STAGES[i]) : i \in 1..Len(AVAILABLE_STAGES)}

R2Buckets ==
  UNION {[held -> R2Bodies] : held \in SUBSET R2Keys}

R2Init ==
  /\ clock = 0
  /\ rng = 0
  /\ configs = <<>>
  /\ keyring = [d \in Devices |-> <<>>]
  /\ envFile = [d \in Devices |-> <<>>]
  /\ obs = [last |-> NoLast, secret |-> <<>>, unlocked |-> {}, evicted |-> {}]
  /\ bucket \in R2Buckets
  /\ cx = [pc |-> "r2"]
  /\ kx = KxIdle

\* One call of each read for a stage, with the requests in net failing.
R2Read(stage, net) ==
  /\ cx.pc = "r2"
  /\ cx' = [pc |-> "r2read", stage |-> stage, net |-> net,
            exists |-> existsInR2(bucket, R2Project, stage, net),
            dl |-> downloadFromR2(bucket, R2Project, stage, net)]
  /\ UNCHANGED <<kx, sysvars>>

R2Next ==
  \E i \in 1..Len(AVAILABLE_STAGES) : \E net \in NetCases(R2Project, AVAILABLE_STAGES[i]) :
    R2Read(AVAILABLE_STAGES[i], net)

SpecR2 == R2Init /\ [][R2Next]_vars

\* C11: for a stage other than the default one neither read asks for the
\* legacy key, and with no object under the stage key both report not-found
\* whatever the legacy key holds; and for any stage, when the stage key holds
\* an object and its request is answered, the reads return that object.
C11_NoLegacyForOtherStages ==
  cx.pc = "r2read" =>
    LET stageKey == getR2Key(R2Project, cx.stage)
        legacyKey == getLegacyR2Key(R2Project)
    IN  /\ cx.stage # DEFAULT_STAGE =>
             /\ legacyKey \notin Range(cx.exists.requests)
             /\ legacyKey \notin Range(cx.dl.requests)
             /\ stageKey \notin DOMAIN bucket => (~cx.exists.result /\ ~cx.dl.ok)
        /\ (stageKey \in DOMAIN bucket /\ stageKey \notin cx.net) =>
             /\ cx.exists.result
             /\ cx.dl.ok
             /\ cx.dl.body = bucket[stageKey]

\* A read for production found nothing although the legacy key holds an object.
C11_Witness ==
  /\ cx.pc = "r2read"
  /\ cx.stage = "production"
  /\ cx.net = {}
  /\ getLegacyR2Key(R2Project) \in DOMAIN bucket
  /\ getR2Key(R2Project, "production") \notin DOMAIN bucket
  /\ ~cx.exists.result
  /\ ~cx.dl.ok

\* ------------------------------------------- the version ledger on its own
\* Per stage, the versions by sequence number.  A version is
\* [sequenceNumber, timestamp, message, payload].  A writer reads the current
\* maximum, then puts its version under the next number: the two remote calls
\* are two steps, and writers on other devices may run in between.
MaxLedgerOps == 3

LedgerStages == {AVAILABLE_STAGES[1], AVAILABLE_STAGES[3]}
LedgerMessages == {"none", "note"}

LedgerEntry ==
  initKeyEntry(R2Project, deriveKeyFromPassphrase(<<"pass", 1>>, <<"rand", 1>>), 0)

\* currentMax: 0 for a stage without versions.
CurrentMax(versions) ==
  IF DOMAIN versions = {} THEN 0
  ELSE CHOOSE n \in DOMAIN versions : \A m \in DOMAIN versions : m <= n

\* A faulty numbering: the latest number is used again.
NextSequenceLatest(versions) ==
  IF CurrentMax(versions) = 0 THEN 1 ELSE CurrentMax(versions)

\* next = currentMax + 1
NextSequence(versions) == CurrentMax(versions) + 1

NewVersion(next, now, message, payload) ==
  [sequenceNumber |-> next, timestamp |-> now, message |-> message, payload |-> payload]

\* A faulty rollback: the payload of the latest version is copied.
RollbackVersionLatest(versions, targetN, next, now) ==
  NewVersion(next, now, <<"rollback", targetN>>, versions[CurrentMax(versions)].payload)

\* The version rollback(stage, targetN) appends: the payload of version targetN
\* and a message noting the source version.
RollbackVersion(versions, targetN, next, now) ==
  NewVersion(next, now, <<"rollback", targetN>>, versions[targetN].payload)

\* A faulty put: a version already under the number is kept.
RecordVersionFirstWins(versions, version) ==
  IF version.sequenceNumber \in DOMAIN versions THEN versions
  ELSE [n \in DOMAIN versions \cup {version.sequenceNumber} |->
          IF n = version.sequenceNumber THEN version ELSE versions[n]]

\* The put of a version under its sequence number: one remote write, which
\* replaces whatever is under that number.
RecordVersion(versions, version) ==
  [n \in DOMAIN versions \cup {version.sequenceNumber} |->
     IF n = version.sequenceNumber THEN version ELSE versions[n]]

\* A faulty failure: the metadata is recorded without the payload.
FailedPutPartial(versions, version) ==
  RecordVersion(versions, [version EXCEPT !.payload = EmptyStr])

\* A put that failed: nothing is recorded.
FailedPut(versions, version) == versions

\* listVersions(stage): the metadata in ascending order of sequence number.
listVersions(versions) ==
  [i \in 1..Cardinality(DOMAIN versions) |->
     LET n == CHOOSE n \in DOMAIN versions :
                Cardinality({m \in DOMAIN versions : m <= n}) = i
     IN  [sequenceNumber |-> versions[n].sequenceNumber,
          timestamp |-> versions[n].timestamp, message |-> versions[n].message]]

\* getVersion(stage, n)
getVersion(versions, n) ==
  IF n \in DOMAIN versions THEN [ok |-> TRUE, err |-> "none", version |-> versions[n]]
  ELSE [ok |-> FALSE, err |-> "NotFoundError", version |-> NewVersion(0, 0, "none", EmptyStr)]

\* getLatest(stage)
getLatest(versions) ==
  IF CurrentMax(versions) = 0
  THEN [ok |-> FALSE, err |-> "EmptyHistoryError", version |-> NewVersion(0, 0, "none", EmptyStr)]
  ELSE getVersion(versions, CurrentMax(versions))

\* Whether push detects a change: the latest payload does not open to the content.
ContentChanged(versions, content) ==
  \/ ~getLatest(versions).ok
  \/ LET out == decrypt(AfterColon(getLatest(versions).version.payload),
                        FromBase64(LedgerEntry.key))
     IN  ~out.ok \/ out.plaintext # content

NoWrite == [op |-> "none"]
NoLedgerLast ==
  [op |-> "none", stage |-> "", dev |-> "", exit |-> "", targetN |-> 0, next |-> 0,
   solo |-> TRUE, raced |-> FALSE, prev |-> <<>>, version |-> NewVersion(0, 0, "none", EmptyStr)]

LedgerInit ==
  /\ kx = [pc |-> "ledger", ledger |-> [st \in LedgerStages |-> <<>>],
           pending |-> [d \in Devices |-> NoWrite], now |-> 0, ops |-> 0,
           pushes |-> [st \in LedgerStages |-> 0],
           overlapped |-> [st \in LedgerStages |-> FALSE], last |-> NoLedgerLast]
  /\ cx = CxIdle
  /\ SysInit

\* Another device has a write to the stage under way.
Overlaps(d, stage) ==
  \E e \in Devices \ {d} : kx.pending[e].op # "none" /\ kx.pending[e].stage = stage

\* The pending writes, the write of d being w, the others to the stage marked
\* as overlapped when w is.
Pend(d, w) ==
  [e \in Devices |->
     IF e = d THEN w
     ELSE IF kx.pending[e].op # "none" /\ w.op # "none" /\ kx.pending[e].stage = w.stage
     THEN [kx.pending[e] EXCEPT !.solo = FALSE]
     ELSE kx.pending[e]]

\* push(stage, plaintext, message, force), first step: the current maximum is
\* read and the version is sealed; an unforced push of unchanged content is skipped.
LedgerPushBegin(d, stage, content, message, force) ==
  /\ kx.pc = "ledger"
  /\ kx.ops < MaxLedgerOps
  /\ kx.pending[d].op = "none"
  /\ LET versions == kx.ledger[stage]
         payload == pushPayload(LedgerEntry, content, <<"rand", kx.now + 1>>)
         w == [op |-> "push", stage |-> stage, targetN |-> 0, solo |-> ~Overlaps(d, stage),
               version |-> NewVersion(NextSequence(versions), kx.now + 1, message, payload)]
     IN  IF ~force /\ ~ContentChanged(versions, content)
         THEN kx' = [kx EXCEPT !.now = @ + 1, !.ops = @ + 1,
                       !.last = [NoLedgerLast EXCEPT !.op = "push", !.stage = stage,
                                   !.dev = d, !.exit = "skipped", !.prev = versions]]
         ELSE kx' = [kx EXCEPT !.now = @ + 1, !.ops = @ + 1, !.pending = Pend(d, w),
                       !.overlapped[stage] = @ \/ Overlaps(d, stage)]
  /\ UNCHANGED <<cx, sysvars>>

\* rollback(stage, targetN), first step: version targetN and the current
\* maximum are read; NotFoundError when targetN is absent.
LedgerRollbackBegin(d, stage, targetN) ==
  /\ kx.pc = "ledger"
  /\ kx.ops < MaxLedgerOps
  /\ kx.pending[d].op = "none"
  /\ LET versions == kx.ledger[stage]
     IN  IF ~getVersion(versions, targetN).ok
         THEN kx' = [kx EXCEPT !.now = @ + 1, !.ops = @ + 1,
                       !.last = [NoLedgerLast EXCEPT !.op = "rollback", !.stage = stage,
                                   !.dev = d, !.targetN = targetN, !.prev = versions,
                                   !.exit = "NotFoundError"]]
         ELSE LET w == [op |-> "rollback", stage |-> stage, targetN |-> targetN,
                        solo |-> ~Overlaps(d, stage),
                        version |-> RollbackVersion(versions, targetN,
                                                    NextSequence(versions), kx.now + 1)]
              IN  kx' = [kx EXCEPT !.now = @ + 1, !.ops = @ + 1, !.pending = Pend(d, w),
                           !.overlapped[stage] = @ \/ Overlaps(d, stage)]
  /\ UNCHANGED <<cx, sysvars>>

\* Second step of push and rollback: the put of the version, which lands or fails.
LedgerPut(d, fails) ==
  /\ kx.pc = "ledger"
  /\ kx.pending[d].op # "none"
  /\ LET w == kx.pending[d]
         versions == kx.ledger[w.stage]
     IN  kx' = [kx EXCEPT
           !.ledger[w.stage] = IF fails THEN FailedPut(versions, w.version)
                               ELSE RecordVersion(versions, w.version),
           !.pending[d] = NoWrite,
           !.pushes[w.stage] = IF fails THEN @ ELSE @ + 1,
           !.last = [op |-> w.op, stage |-> w.stage, dev |-> d,
                     exit |-> IF fails THEN "NetworkError" ELSE "ok",
                     targetN |-> w.targetN, next |-> w.version.sequenceNumber,
                     solo |-> w.solo,
                     raced |-> w.version.sequenceNumber \in DOMAIN versions,
                     prev |-> versions, version |-> w.version]]
  /\ UNCHANGED <<cx, sysvars>>

LedgerNext ==
  \/ \E d \in Devices, stage \in LedgerStages, content \in Contents,
        message \in LedgerMessages, force \in BOOLEAN :
        LedgerPushBegin(d, stage, content, message, force)
  \/ \E d \in Devices, stage \in LedgerStages, targetN \in 1..MaxLedgerOps :
        LedgerRollbackBegin(d, stage, targetN)
  \/ \E d \in Devices, fails \in BOOLEAN : LedgerPut(d, fails)

SpecLedger == LedgerInit /\ [][LedgerNext]_vars

\* listVersions of the stage has exactly the entries 1, 2, ..., pushes, in
\* ascending order.
Numbered(st) ==
  LET l == listVersions(kx.ledger[st])
  IN  /\ Len(l) = kx.pushes[st]
      /\ \A i \in 1..Len(l) : l[i].sequenceNumber = i

\* C12 as stated: after N successful pushes and rollbacks to a stage,
\* listVersions of the stage returns exactly N entries numbered 1..N, each
\* stage counting on its own.
C12_VersionMonotonicity ==
  kx.pc = "ledger" =>
    \A st \in LedgerStages :
      (\A d \in Devices : kx.pending[d].op = "none" \/ kx.pending[d].stage # st)
        => Numbered(st)

\* C12 amended: the same for every stage none of whose pushes and rollbacks
\* ran while another write to that stage was under way.
C12_SequentialMonotonicity ==
  kx.pc = "ledger" =>
    \A st \in LedgerStages : ~kx.overlapped[st] => Numbered(st)

\* Two versions on one stage and one on the other, written one after another.
C12_Witness ==
  /\ kx.pc = "ledger"
  /\ \A st \in LedgerStages : ~kx.overlapped[st]
  /\ kx.pushes["development"] = 2
  /\ kx.pushes["production"] = 1

\* The stage after a completed rollback: exactly one version more than before,
\* numbered N+1, with the payload of version targetN, and versions 1..N as before.
RollbackAppended ==
  LET prev == kx.last.prev
      cur == kx.ledger[kx.last.stage]
      N == CurrentMax(prev)
  IN  /\ DOMAIN prev = 1..N
      /\ DOMAIN cur = 1..(N + 1)
      /\ cur[N + 1].sequenceNumber = N + 1
      /\ cur[N + 1].payload = prev[kx.last.targetN].payload
      /\ \A m \in 1..N : cur[m] = prev[m] /\ getVersion(cur, m).version = prev[m]

\* C13 as stated: rollback(stage, k) on a stage with versions 1..N appends
\* exactly one version N+1 with version k's payload and leaves versions 1..N
\* unchanged and retrievable.
C13_RollbackNonDestructive ==
  (kx.pc = "ledger" /\ kx.last.op = "rollback" /\ kx.last.exit = "ok") => RollbackAppended

\* C13 amended: the same for a rollback during which no other write to the
\* stage was under way.
C13_SequentialRollback ==
  (kx.pc = "ledger" /\ kx.last.op = "rollback" /\ kx.last.exit = "ok" /\ kx.last.solo)
    => RollbackAppended

\* A rollback to the first of two versions has completed on its own.
C13_Witness ==
  /\ kx.pc = "ledger"
  /\ kx.last.op = "rollback"
  /\ kx.last.exit = "ok"
  /\ kx.last.solo
  /\ kx.last.targetN = 1
  /\ CurrentMax(kx.last.prev) = 2

C15_LastWriterWins ==
  (kx.pc = "ledger" /\ kx.last.raced /\ kx.last.exit # "NetworkError") =>
    /\ kx.last.exit = "ok"
    /\ kx.last.prev[kx.last.next].sequenceNumber = kx.last.version.sequenceNumber
    /\ DOMAIN kx.ledger[kx.last.stage] = DOMAIN kx.last.prev
    /\ kx.ledger[kx.last.stage][kx.last.next] = kx.last.version

\* The second of two concurrent writers has replaced the other's version.
C15_Witness ==
  /\ kx.pc = "ledger"
  /\ kx.last.raced
  /\ kx.last.exit = "ok"
  /\ kx.last.prev[kx.last.next].payload # kx.last.version.payload
  /\ kx.ledger[kx.last.stage][kx.last.next].payload = kx.last.version.payload

\* ------------------------------------------------ env parser and diff
\* Lines beyond those above: KEY="text with the quote left open, and a line of
\* text that holds a quote character and no "=".
OpenQuote(k) == <<"open", k>>
CloseQuote == <<"close">>

\* line.includes(quoteChar)
HasQuote(line) == line[1] \in {"open", "close"}

\* A single-line value, the value of an open quote after the lines in more
\* have been appended, and line.slice(0, line.indexOf(quoteChar)).
Value(v) == <<"v", v>>
Multiline(more) == <<"multiline", more, "open">>
UpToQuote(line) == <<"upto", line, "quote">>

\* parseLine: null without "=", key and value otherwise.
parseLine(line) ==
  CASE line[1] = "kv" ->
         [ok |-> TRUE, key |-> line[2], value |-> Value(line[3]), isMultiline |-> FALSE]
    [] line[1] = "open" ->
         [ok |-> TRUE, key |-> line[2], value |-> Multiline(<<>>), isMultiline |-> TRUE]
    [] OTHER ->
         [ok |-> FALSE, key |-> "", value |-> Value(""), isMultiline |-> FALSE]

\* env[key] = value; keys.push(key)
Assign(st, key, value) ==
  [st EXCEPT !.env = [k \in DOMAIN st.env \cup {key} |->
                        IF k = key THEN value ELSE st.env[k]],
             !.keys = Append(st.keys, key)]

\* One turn of the loop of parseEnvContent.
parseStep(st, line) ==
  IF st.inMultilineValue /\ st.currentKey # ""
  THEN IF HasQuote(line)
       THEN [Assign(st, st.currentKey,
                    Multiline(Append(st.currentValue[2], UpToQuote(line))))
               EXCEPT !.currentKey = "", !.currentValue = Multiline(<<>>),
                      !.inMultilineValue = FALSE]
       ELSE [st EXCEPT !.currentValue = Multiline(Append(st.currentValue[2], line))]
  ELSE IF IsBlank(line) \/ IsComment(line)
       THEN st
       ELSE LET parsed == parseLine(line)
            IN  IF ~parsed.ok
                THEN st
                ELSE IF parsed.isMultiline
                     THEN [st EXCEPT !.currentKey = parsed.key,
                                     !.currentValue = parsed.value,
                                     !.inMultilineValue = TRUE]
                     ELSE Assign(st, parsed.key, parsed.value)

RECURSIVE parseLoop(_, _, _)
parseLoop(lines, i, st) ==
  IF i > Len(lines) THEN st ELSE parseLoop(lines, i + 1, parseStep(st, lines[i]))

\* parseEnvContent: env, keys in the order assigned (a key assigned twice is
\* there twice) and count.
parseEnvContent(content) ==
  LET st == parseLoop(Lines(content), 1,
                      [env |-> <<>>, keys |-> <<>>, currentKey |-> "",
                       currentValue |-> Multiline(<<>>), inMultilineValue |-> FALSE])
      end == IF st.currentKey # "" /\ st.inMultilineValue
             THEN Assign(st, st.currentKey, st.currentValue)
             ELSE st
  IN  [env |-> end.env, count |-> Len(end.keys), keys |-> end.keys]

\* A diff that counts the unchanged assignments instead of the unchanged keys.
diffCountingAssignments(localPlaintext, remotePlaintext) ==
  LET l == parseEnvContent(localPlaintext)
      r == parseEnvContent(remotePlaintext).env
  IN  [added |-> DOMAIN r \ DOMAIN l.env,
       removed |-> DOMAIN l.env \ DOMAIN r,
       changed |-> {k \in DOMAIN r \cap DOMAIN l.env : r[k] # l.env[k]},
       unchangedCount |->
         Cardinality({i \in 1..Len(l.keys) :
                        l.keys[i] \in DOMAIN r /\ r[l.keys[i]] = l.env[l.keys[i]]})]

\* diff: the local plaintext against the decrypted target version.
diff(localPlaintext, remotePlaintext) ==
  LET l == parseEnvContent(localPlaintext).env
      r == parseEnvContent(remotePlaintext).env
  IN  [added |-> {k \in DOMAIN r : k \notin DOMAIN l},
       removed |-> {k \in DOMAIN l : k \notin DOMAIN r},
       changed |-> {k \in DOMAIN r : k \in DOMAIN l /\ r[k] # l[k]},
       unchangedCount |-> Cardinality({k \in DOMAIN r : k \in DOMAIN l /\ r[k] = l[k]})]

\* Longest env file of the experiment, in lines.
MaxDiffLines == 3

DiffLineSet ==
  {KV("A", "1"), KV("A", "2"), KV("B", "1"), KV("C", "1"), OpenQuote("D")}

DiffContents ==
  {Unlines(ls) : ls \in UNION {[1..n -> DiffLineSet] : n \in 1..MaxDiffLines}}

DiffInit ==
  /\ SysInit
  /\ kx = KxIdle
  /\ \E localPlaintext \in DiffContents, remotePlaintext \in DiffContents :
       cx = [pc |-> "diff", local |-> localPlaintext, remote |-> remotePlaintext]

diffCommand ==
  /\ cx.pc = "diff"
  /\ cx' = [pc |-> "diffed", local |-> cx.local, remote |-> cx.remote,
            result |-> diff(cx.local, cx.remote)]
  /\ UNCHANGED <<sysvars, kx>>

DiffNext == diffCommand

SpecDiff == DiffInit /\ [][DiffNext]_vars

\* C16: the four groups of a diff are disjoint and cover the keys of the two
\* sides: added holds the keys only in the target version, removed the keys
\* only in the local plaintext, changed the keys in both with different
\* values, and unchangedCount counts the keys in both with equal values.
C16_DiffPartition ==
  cx.pc = "diffed" =>
    LET l == parseEnvContent(cx.local).env
        r == parseEnvContent(cx.remote).env
        both == DOMAIN l \cap DOMAIN r
        res == cx.result
    IN  /\ \A k \in DOMAIN l \cup DOMAIN r :
             /\ k \in res.added <=> k \notin DOMAIN l
             /\ k \in res.removed <=> k \notin DOMAIN r
             /\ k \in res.changed <=> (k \in both /\ l[k] # r[k])
        /\ res.added \cup res.removed \cup res.changed \subseteq DOMAIN l \cup DOMAIN r
        /\ res.added \cap res.removed = {}
        /\ res.added \cap res.changed = {}
        /\ res.removed \cap res.changed = {}
        /\ res.unchangedCount = Cardinality({k \in both : l[k] = r[k]})
        /\ Cardinality(res.added) + Cardinality(res.removed)
             + Cardinality(res.changed) + res.unchangedCount
           = Cardinality(DOMAIN l \cup DOMAIN r)

\* A diff with a key in each of the four groups.
C16_Witness ==
  /\ cx.pc = "diffed"
  /\ cx.result.added # {}
  /\ cx.result.removed # {}
  /\ cx.result.changed # {}
  /\ cx.result.unchangedCount = 1

\* ------------------------------------------------ run: child and signals
\* The experiment follows one `run` on one device from its first request to
\* the exit of the parent. Its state, in cx:
\*   child     "none" before spawn, "alive", "failing" (spawn gave no pid and
\*             the error event is due), "exited" (the exit event is due),
\*             "failed" (the error event has been handled)
\*   handlers  the signals process.on has a listener for
\*   others    the signals other code of the process has a listener for
\*   forwarded the signals child.kill has delivered to the live child
\*   childCode, childSignal  the (code, signal) the child ended with
\*   parent    "running", "returned" (runCommand returned and nothing keeps the
\*             process), "exited" (process.exit), "killed" (a signal's default
\*             action)
RunSignals == {"SIGINT", "SIGTERM", "SIGHUP"}

signalToNumber(signal) ==
  CASE signal = "SIGHUP" -> 1
    [] signal = "SIGINT" -> 2
    [] signal = "SIGQUIT" -> 3
    [] signal = "SIGTERM" -> 15
    [] OTHER -> 0

\* Signals delivered to the parent in one run.
MaxSignals == 2

\* The code of a child that a signal ended: null.
NullCode == -1

\* An exit handler that passes on the code only.
exitStatusCodeOnly(code, signal) == IF code = NullCode THEN 0 ELSE code

\* Lines 212-217: 128 + (signalToNumber(signal) || 0) with a signal, else code ?? 0.
exitStatus(code, signal) ==
  IF signal # "none" THEN 128 + signalToNumber(signal)
  ELSE IF code = NullCode THEN 0 ELSE code

RunDevice == "d1"

\* child.pid is set once spawn has started the child.
HasPid(child) == child \in {"alive", "exited"}

\* A handler that interrupts the child whatever the signal.
signalHandlerInterrupt(child, signal) == IF HasPid(child) THEN "SIGINT" ELSE "none"

\* signalHandler: the signal child.kill is called with, "none" without a call.
signalHandler(child, signal) == IF HasPid(child) THEN signal ELSE "none"

\* A run that spawns in dry-run mode too.
launchAlways(dryRun, started) ==
  [parent |-> "running", child |-> IF started THEN "alive" ELSE "failing",
   handlers |-> RunSignals]

\* Lines 152-198: return in dry-run mode, else spawn and process.on for each
\* of the signals.
launch(dryRun, started) ==
  IF dryRun
  THEN [parent |-> "returned", child |-> "none", handlers |-> {}]
  ELSE [parent |-> "running", child |-> IF started THEN "alive" ELSE "failing",
        handlers |-> RunSignals]

RunBuckets ==
  {<<>>} \cup {[k \in {getR2Key(R2Project, DEFAULT_STAGE)} |-> body] : body \in R2Bodies}

RunInit ==
  /\ clock = 0
  /\ rng = 0
  /\ configs = <<>>
  /\ keyring = [d \in Devices |-> <<>>]
  /\ envFile = [d \in Devices |-> <<>>]
  /\ obs = [last |-> NoLast, secret |-> <<>>, unlocked |-> {}, evicted |-> {}]
  /\ bucket \in RunBuckets
  /\ kx = KxIdle
  /\ \E dryRun \in BOOLEAN, others \in {{}, {"SIGINT"}} :
       cx = [pc |-> "run", dryRun |-> dryRun, fetched |-> FALSE, decrypted |-> FALSE,
             body |-> EmptyStr, env |-> <<>>, child |-> "none", handlers |-> {},
             installed |-> others, others |-> others,
             childCode |-> NullCode, childSignal |-> "none",
             forwarded |-> <<>>, signals |-> 0, parent |-> "running",
             exitCalled |-> FALSE, exitCode |-> 0,
             last |-> [sig |-> "none", alive |-> FALSE, sent |-> "none"]]

\* process.exit(code)
RunExit(code) == [cx EXCEPT !.parent = "exited", !.exitCalled = TRUE, !.exitCode = code]

\* Lines 25-75: existsInR2 and downloadFromR2.
RunFetch(net) ==
  /\ cx.pc = "run"
  /\ cx.parent = "running"
  /\ LET ex == existsInR2(bucket, R2Project, DEFAULT_STAGE, net)
         dl == downloadFromR2(bucket, R2Project, DEFAULT_STAGE, net)
     IN  cx' = IF ~ex.result \/ ~dl.ok \/ NoColon(dl.body)
               THEN [RunExit(1) EXCEPT !.pc = "done"]
               ELSE [cx EXCEPT !.pc = "fetched", !.fetched = TRUE, !.body = dl.body]
  /\ UNCHANGED <<sysvars, kx>>

\* Lines 76-198: the key, decrypt, parseEnvContent, then the dry-run return or
\* spawn and the signal listeners.
RunUnlock(passphrase, started) ==
  /\ cx.pc = "fetched"
  /\ cx.parent = "running"
  /\ LET u == unlock(keyring[RunDevice], R2Project, cx.body, passphrase)
         keys1 == persistKey(keyring[RunDevice], R2Project, u, clock)
         l == launch(cx.dryRun, started)
     IN  /\ keyring' = [keyring EXCEPT ![RunDevice] =
                          IF u.out.ok THEN keys1 ELSE catchBlock(keys1, R2Project)]
         /\ cx' = IF ~u.out.ok
                  THEN [RunExit(1) EXCEPT !.pc = "done"]
                  ELSE [cx EXCEPT !.pc = IF l.parent = "returned" THEN "done" ELSE "waiting",
                                  !.decrypted = TRUE,
                                  !.env = parseEnvContent(u.out.plaintext).env,
                                  !.parent = l.parent, !.child = l.child,
                                  !.handlers = l.handlers]
  /\ UNCHANGED <<clock, rng, configs, envFile, bucket, obs, kx>>

\* A signal reaches the parent: its listeners run, or without any the default
\* action ends the process.
RunSignal(sig) ==
  /\ cx.pc \in {"run", "fetched", "waiting"}
  /\ cx.parent = "running"
  /\ cx.signals < MaxSignals
  /\ LET sent == IF sig \in cx.handlers THEN signalHandler(cx.child, sig) ELSE "none"
         seen == [cx EXCEPT !.signals = @ + 1,
                            !.last = [sig |-> sig, alive |-> cx.child = "alive",
                                      sent |-> sent]]
     IN  cx' = IF sig \notin cx.handlers \cup cx.others
               THEN [seen EXCEPT !.parent = "killed", !.pc = "done"]
               ELSE IF sent # "none" /\ cx.child = "alive"
                    THEN [seen EXCEPT !.forwarded = Append(@, sent)]
                    ELSE seen
  /\ UNCHANGED <<sysvars, kx>>

\* The child ends: with a code, or with null as code when a signal ended it.
ChildExits(code, signal) ==
  /\ cx.pc = "waiting"
  /\ cx.child = "alive"
  /\ (signal = "none") = (code # NullCode)
  /\ cx' = [cx EXCEPT !.child = "exited", !.childCode = code, !.childSignal = signal]
  /\ UNCHANGED <<sysvars, kx>>

\* child.on("exit"): removeAllListeners for each of the signals, then
\* process.exit.
ChildExitEvent ==
  /\ cx.pc = "waiting"
  /\ cx.child = "exited"
  /\ cx.parent = "running"
  /\ cx' = [RunExit(exitStatus(cx.childCode, cx.childSignal))
              EXCEPT !.handlers = {}, !.others = cx.others \ RunSignals, !.pc = "done"]
  /\ UNCHANGED <<sysvars, kx>>

\* child.on("error"): process.exit(1).
ChildErrorEvent ==
  /\ cx.pc = "waiting"
  /\ cx.child = "failing"
  /\ cx.parent = "running"
  /\ cx' = [RunExit(1) EXCEPT !.child = "failed", !.pc = "done"]
  /\ UNCHANGED <<sysvars, kx>>

RunNext ==
  \/ \E net \in NetCases(R2Project, DEFAULT_STAGE) : RunFetch(net)
  \/ \E passphrase \in Passphrases, started \in BOOLEAN : RunUnlock(passphrase, started)
  \/ \E sig \in RunSignals : RunSignal(sig)
  \/ \E code \in {0, 1, NullCode}, signal \in RunSignals \cup {"none", "SIGQUIT", "SIGKILL"} :
       ChildExits(code, signal)
  \/ ChildExitEvent
  \/ ChildErrorEvent

SpecRun == RunInit /\ [][RunNext]_vars

RunStates == {"run", "fetched", "waiting", "done"}

\* C17: a SIGINT, SIGTERM or SIGHUP that reaches the parent while the child is
\* alive is sent on to the child as the same signal, and the parent is gone
\* only when the child is no longer alive.
C17_SignalsForwarded ==
  cx.pc \in RunStates =>
    /\ cx.last.alive =>
         /\ cx.last.sent = cx.last.sig
         /\ cx.forwarded # <<>>
         /\ cx.forwarded[Len(cx.forwarded)] = cx.last.sig
    /\ Len(cx.forwarded) <= cx.signals
    /\ cx.parent \in {"exited", "killed"} => cx.child \in {"none", "exited", "failed"}
    /\ (cx.parent = "killed" => cx.child = "none")

\* The child was sent the parent's SIGHUP, died of it, and the parent left
\* with 128 + 1.
C17_Witness ==
  /\ cx.pc \in RunStates
  /\ cx.last.alive
  /\ cx.last.sig = "SIGHUP"
  /\ cx.child = "exited"
  /\ cx.parent = "exited"
  /\ cx.exitCode = 129

\* C18: a dry run never spawns a child and never listens for a signal, and
\* when it returns it has fetched and decrypted the secrets and has not called
\* process.exit; only a dry run returns.
C18_DryRunSpawnsNothing ==
  cx.pc \in RunStates =>
    /\ cx.dryRun =>
         /\ cx.child = "none"
         /\ cx.handlers = {}
         /\ cx.forwarded = <<>>
         /\ (cx.fetched /\ cx.decrypted /\ cx.parent # "killed") => cx.parent = "returned"
    /\ cx.parent = "returned" =>
         /\ cx.dryRun
         /\ cx.fetched
         /\ cx.decrypted
         /\ ~cx.exitCalled

\* A dry run has returned with secrets decrypted.
C18_Witness ==
  /\ cx.pc \in RunStates
  /\ cx.dryRun
  /\ cx.parent = "returned"
  /\ cx.env # <<>>

\* ------------------------------------------------------------ add-stage
\* path.relative(cwd, path.resolve(cwd, envPath)): "./.env" is ".env".
relativePath(envPath) == IF Len(envPath) > 1 /\ envPath[1] = "." THEN Tail(envPath) ELSE envPath

\* getConfiguredStages(config): the names under config.stages, none for a
\* config written before stages existed.
getConfiguredStages(config) ==
  IF "stages" \in DOMAIN config THEN DOMAIN config.stages ELSE {}

\* AVAILABLE_STAGES.filter((stage) => !currentStages.includes(stage))
availableToAdd(currentStages) ==
  SelectSeq(AVAILABLE_STAGES, LAMBDA stage : stage \notin currentStages)

\* A config that keeps the new stage only.
withStageOnly(config, stageToAdd, relativeEnvPath) ==
  [k \in DOMAIN config \cup {"stages"} |->
     IF k = "stages" THEN [st \in {stageToAdd} |-> [envPath |-> relativeEnvPath]]
     ELSE config[k]]

\* Lines 123-127: config.stages, {} when absent, with the stage set.
withStage(config, stageToAdd, relativeEnvPath) ==
  LET stages == IF "stages" \in DOMAIN config THEN config.stages ELSE <<>>
  IN  [k \in DOMAIN config \cup {"stages"} |->
         IF k = "stages"
         THEN [st \in DOMAIN stages \cup {stageToAdd} |->
                 IF st = stageToAdd THEN [envPath |-> relativeEnvPath] ELSE stages[st]]
         ELSE config[k]]

\* Configs as the two init commands write them: without stages
\* (commands/init.ts) and with the stages selected.
StageSelections ==
  {<<"development">>, <<"staging">>, <<"development", "production">>,
   <<"development", "staging", "production">>}

StageConfigs ==
  {[projectId |-> R2Project, envPath |-> <<".env">>, createdAt |-> 0]} \cup
  {[projectId |-> R2Project, envPath |-> defaultEnvPath(sel, sel[1]), createdAt |-> 0,
    stages |-> [st \in Range(sel) |-> [envPath |-> defaultEnvPath(sel, st)]]] :
     sel \in StageSelections}

\* The answers to "Where should the <stage> .env file be located?".
StagePaths(stage) == {<<".env", stage>>, <<".env">>, <<".", ".env">>}

NoStageLast ==
  [exit |-> "none", before |-> <<>>, files |-> <<>>, offered |-> <<>>,
   stageToAdd |-> "", envPath |-> <<>>]

StageInit ==
  /\ clock = 0
  /\ rng = 0
  /\ keyring = [d \in Devices |-> <<>>]
  /\ bucket = <<>>
  /\ obs = [last |-> NoLast, secret |-> <<>>, unlocked |-> {}, evicted |-> {}]
  /\ kx = KxIdle
  /\ cx = [pc |-> "stage", last |-> NoStageLast]
  /\ configs \in {<<>>} \cup {[p \in {R2Project} |-> c] : c \in StageConfigs}
  /\ \E files \in {<<>>} \cup {[f \in {<<".env">>} |-> c] : c \in Contents} :
       envFile = [d \in Devices |-> IF d = RunDevice THEN files ELSE <<>>]

\* addStageCommand, the prompts answered with stageToAdd, envPath,
\* usePlainEnv and createEnv.
addStageCommand(stageToAdd, envPath, usePlainEnv, createEnv) ==
  /\ cx.pc = "stage"
  /\ UNCHANGED <<clock, rng, keyring, bucket, obs, kx>>
  /\ IF R2Project \notin DOMAIN configs
     THEN /\ cx' = [cx EXCEPT !.last = [NoStageLast EXCEPT !.exit = "exit1"]]
          /\ UNCHANGED <<configs, envFile>>
     ELSE LET config == configs[R2Project]
              offered == availableToAdd(getConfiguredStages(config))
              seen == [NoStageLast EXCEPT !.before = config, !.offered = offered,
                                          !.files = envFile[RunDevice]]
              relativeEnvPath == relativePath(envPath)
          IN  IF offered = <<>>
              THEN /\ cx' = [cx EXCEPT !.last = [seen EXCEPT !.exit = "nothing"]]
                   /\ UNCHANGED <<configs, envFile>>
              ELSE /\ stageToAdd \in Range(offered)
                   /\ envPath \in StagePaths(stageToAdd)
                   /\ IF relativeEnvPath = <<".env">> /\ ~usePlainEnv
                      THEN /\ cx' = [cx EXCEPT !.last =
                                       [seen EXCEPT !.exit = "cancelled",
                                                    !.stageToAdd = stageToAdd,
                                                    !.envPath = relativeEnvPath]]
                           /\ UNCHANGED <<configs, envFile>>
                      ELSE /\ envFile' = [envFile EXCEPT ![RunDevice] =
                                 IF relativeEnvPath \notin DOMAIN @ /\ createEnv
                                 THEN WriteFile(@, relativeEnvPath, StubFile(stageToAdd))
                                 ELSE @]
                           /\ configs' = [configs EXCEPT ![R2Project] =
                                 withStage(config, stageToAdd, relativeEnvPath)]
                           /\ cx' = [cx EXCEPT !.last =
                                       [seen EXCEPT !.exit = "ok",
                                                    !.stageToAdd = stageToAdd,
                                                    !.envPath = relativeEnvPath]]

StageNext ==
  \E i \in 1..Len(AVAILABLE_STAGES), usePlainEnv \in BOOLEAN, createEnv \in BOOLEAN :
    \E envPath \in StagePaths(AVAILABLE_STAGES[i]) :
      addStageCommand(AVAILABLE_STAGES[i], envPath, usePlainEnv, createEnv)

SpecStage == StageInit /\ [][StageNext]_vars

\* C19: add-stage offers only stages that are not configured; when it
\* succeeds the config has the same projectId, createdAt and envPath, the
\* stages it had with their paths, and one more stage, the one chosen; when
\* it is cancelled or has nothing to add the config and the files are as before.
C19_AddStageFrame ==
  (cx.pc = "stage" /\ cx.last.exit \notin {"none", "exit1"}) =>
    LET before == cx.last.before
        after == configs[R2Project]
        had == getConfiguredStages(before)
    IN  /\ Range(cx.last.offered) \cap had = {}
        /\ after.projectId = before.projectId
        /\ after.createdAt = before.createdAt
        /\ after.envPath = before.envPath
        /\ cx.last.exit = "ok" =>
             /\ cx.last.stageToAdd \notin had
             /\ getConfiguredStages(after) = had \cup {cx.last.stageToAdd}
             /\ \A st \in had : after.stages[st] = before.stages[st]
             /\ after.stages[cx.last.stageToAdd].envPath = cx.last.envPath
        /\ cx.last.exit \in {"cancelled", "nothing"} =>
             /\ after = before
             /\ envFile[RunDevice] = cx.last.files

\* A stage has been added to a project that had two.
C19_Witness ==
  /\ cx.pc = "stage"
  /\ cx.last.exit = "ok"
  /\ Cardinality(getConfiguredStages(cx.last.before)) = 2
  /\ Cardinality(getConfiguredStages(configs[R2Project])) = 3

\* ------------------------------------------------ later envelope checks
\* C21: decrypt reports a format error exactly when the envelope does not
\* split into the three fields iv, tag and ciphertext; an envelope with the
\* three fields goes on to tag verification.
C21_FormatErrorIffNotSplit ==
  cx.pc = "done" =>
    (cx.out.err = "format" <=> Len(Split(cx.env)) # 3)

\* C22: when the get of the stage key fails with an error other than
\* not-found, downloadFromR2 fails with that error: it asks for no other key
\* and does not report "No data found".
C22_NetworkErrorSurfaces ==
  (cx.pc = "r2read" /\ Send(bucket, getR2Key(R2Project, cx.stage), cx.net) = "error") =>
    /\ ~cx.dl.ok
    /\ cx.dl.requests = <<getR2Key(R2Project, cx.stage)>>
    /\ cx.dl.err # "No data found"

\* ------------------------------------------------ keyring file races
\* Two pull or run processes on one device, each at its key step, from
\* getKeyEntry to the end of the catch block. Every keyring function reads the
\* whole file and, when it writes, writes the whole file; a process can be
\* overtaken between its read and its write. keyring[RunDevice] is the file;
\* cx holds per process its project, passphrase, position, what unlock gave
\* and the file contents last read.
RaceProcs == {1, 2}
RaceProjects == {R2Project, R2Project + 1}

\* The key entry init saved for the project and the payload pushed with it.
RaceEntry(q) ==
  initKeyEntry(q, deriveKeyFromPassphrase(<<"pass", 1>>, <<"rand", q>>), 0)

RaceBody(q, content) == pushPayload(RaceEntry(q), content, <<"rand", 3>>)

RaceInit ==
  /\ clock = 0
  /\ rng = 0
  /\ configs = <<>>
  /\ envFile = [d \in Devices |-> <<>>]
  /\ bucket = <<>>
  /\ obs = [last |-> NoLast, secret |-> <<>>, unlocked |-> {}, evicted |-> {}]
  /\ kx = KxIdle
  /\ \E keys \in {<<>>, <<RaceEntry(R2Project)>>, <<RaceEntry(R2Project + 1)>>,
                  <<RaceEntry(R2Project), RaceEntry(R2Project + 1)>>} :
       keyring = [d \in Devices |-> IF d = RunDevice THEN keys ELSE <<>>]
  /\ \E content \in Contents, proj \in [RaceProcs -> RaceProjects],
        pass \in [RaceProcs -> Passphrases] :
       cx = [pc |-> "race", content |-> content,
             procs |-> [p \in RaceProcs |->
                          [at |-> "start", proj |-> proj[p], passphrase |-> pass[p],
                           ok |-> FALSE, prompted |-> FALSE, read |-> <<>>,
                           u |-> unlock(<<>>, proj[p], RaceBody(proj[p], content), pass[p])]],
             wrote |-> [proj |-> 0, before |-> <<>>]]

\* getKeyEntry, the prompt when there is no entry, the key and decrypt
\* (part_003 lines 241-261).
RaceUnlock(p) ==
  /\ cx.pc = "race"
  /\ cx.procs[p].at = "start"
  /\ LET me == cx.procs[p]
         u == unlock(keyring[RunDevice], me.proj, RaceBody(me.proj, cx.content),
                     me.passphrase)
     IN  cx' = [cx EXCEPT !.procs[p] =
                  [me EXCEPT !.u = u, !.ok = u.out.ok, !.prompted = u.shouldPersistKey,
                             !.at = IF ~u.out.ok THEN "catch"
                                    ELSE IF u.shouldPersistKey THEN "save" ELSE "done"]]
  /\ UNCHANGED <<sysvars, kx>>

\* readGlobalKeysConfig in saveKeyEntry, in the catch block's getKeyEntry and
\* in deleteKeyEntry, with the returns that follow it.
RaceRead(p) ==
  /\ cx.pc = "race"
  /\ cx.procs[p].at \in {"save", "catch", "delete"}
  /\ LET me == cx.procs[p]
         keys == keyring[RunDevice]
         to == CASE me.at = "save" -> "saveWrite"
                 [] me.at = "catch" ->
                      IF getKeyEntry(keys, me.proj).found THEN "delete" ELSE "done"
                 [] me.at = "delete" ->
                      IF deleteKeyEntry(keys, me.proj) = keys THEN "done" ELSE "deleteWrite"
     IN  cx' = [cx EXCEPT !.procs[p] = [me EXCEPT !.read = keys, !.at = to]]
  /\ UNCHANGED <<sysvars, kx>>

\* fs.writeFileSync of saveKeyEntry and of deleteKeyEntry: what was read, changed.
RaceWrite(p) ==
  /\ cx.pc = "race"
  /\ cx.procs[p].at \in {"saveWrite", "deleteWrite"}
  /\ LET me == cx.procs[p]
     IN  /\ keyring' = [keyring EXCEPT ![RunDevice] =
                          IF me.at = "saveWrite"
                          THEN persistKey(me.read, me.proj, me.u, p)
                          ELSE deleteKeyEntry(me.read, me.proj)]
         /\ cx' = [cx EXCEPT !.procs[p] = [me EXCEPT !.at = "done"],
                             !.wrote = [proj |-> me.proj, before |-> keyring[RunDevice]]]
  /\ UNCHANGED <<clock, rng, configs, envFile, bucket, obs, kx>>

RaceNext ==
  \E p \in RaceProcs : RaceUnlock(p) \/ RaceRead(p) \/ RaceWrite(p)

SpecRace == RaceInit /\ [][RaceNext]_vars

\* C23: when two invocations for one project, given the same passphrase, have
\* both ended, the keyring holds exactly one entry for the project, and its
\* key is the key derived from the passphrase and the payload's salt.
C23_BenignKeyringRace ==
  (/\ cx.pc = "race"
   /\ \A p \in RaceProcs : cx.procs[p].at = "done" /\ cx.procs[p].proj = R2Project
                           /\ cx.procs[p].passphrase = <<"pass", 1>>) =>
    LET keys == keyring[RunDevice]
        mine == {i \in 1..Len(keys) : keys[i].projectId = R2Project}
    IN  /\ Cardinality(mine) = 1
        /\ \A i \in mine :
             keys[i].key = ToBase64(deriveKeyFromPassphrase(
                             <<"pass", 1>>,
                             FromHex(BeforeColon(RaceBody(R2Project, cx.content)))).key)

\* C30: a write of the keyring file made for one project leaves the entry of
\* every other project as it was just before the write.
C30_OtherProjectsUntouched ==
  (cx.pc = "race" /\ cx.wrote.proj # 0) =>
    \A q \in RaceProjects \ {cx.wrote.proj} :
      getKeyEntry(keyring[RunDevice], q) = getKeyEntry(cx.wrote.before, q)

\* ------------------------------------------------ run: exit and listeners
\* C24: the parent exits with the child's code (0 for a null code), with
\* 129, 130, 131 or 143 when SIGHUP, SIGINT, SIGQUIT or SIGTERM ended the
\* child, with 128 when another signal did, and with 1 when the child failed
\* to start.
C24_ExitCodeMatchesChild ==
  (cx.pc \in RunStates /\ cx.parent = "exited" /\ cx.child \in {"exited", "failed"}) =>
    IF cx.child = "failed" THEN cx.exitCode = 1
    ELSE CASE cx.childSignal = "none" -> cx.exitCode = cx.childCode /\ cx.exitCode >= 0
           [] cx.childSignal = "SIGHUP" -> cx.exitCode = 129
           [] cx.childSignal = "SIGINT" -> cx.exitCode = 130
           [] cx.childSignal = "SIGQUIT" -> cx.exitCode = 131
           [] cx.childSignal = "SIGTERM" -> cx.exitCode = 143
           [] OTHER -> cx.exitCode = 128

\* The child was ended by SIGTERM and the parent has left with 143.
C24_Witness ==
  /\ cx.pc \in RunStates
  /\ cx.parent = "exited"
  /\ cx.child = "exited"
  /\ cx.childSignal = "SIGTERM"
  /\ cx.exitCode = 143

\* C25: once the exit of the child has been handled, none of run's listeners
\* is registered and the listeners other code had installed are.
C25_OnlyOwnListenersRemoved ==
  (cx.pc \in RunStates /\ cx.child = "exited" /\ cx.parent = "exited") =>
    /\ cx.handlers = {}
    /\ cx.others = cx.installed

\* ------------------------------------------------ later command checks
\* C26: a pull for a stage that is not configured, a pull of production the
\* user does not confirm and a pull the user does not let overwrite the local
\* file change no env file, no keyring and no stored object, and download
\* nothing.
C26_DeclinedPullChangesNothing ==
  [][(/\ obs'.last.cmd = "pull"
      /\ clock' # clock
      /\ \/ obs'.last.exit = "cancelled"
         \/ getEnvPathForStage(configs[obs'.last.proj], obs'.last.stage) = <<>>)
     => (/\ envFile' = envFile
         /\ keyring' = keyring
         /\ bucket' = bucket
         /\ obs'.last.body = EmptyStr)]_vars

\* A pull was declined at the overwrite question on a device that holds a key
\* and a local file, with the object in the store.
C26_Witness ==
  /\ obs.last.cmd = "pull"
  /\ obs.last.exit = "cancelled"
  /\ obs.last.exists
  /\ keyring[obs.last.dev] # <<>>
  /\ bucket # <<>>

\* C27: a pull or run leaves a keyring entry new or changed only if its
\* decrypt succeeded, and then it is the entry of its device and project with
\* the key that opened the downloaded payload: a wrong passphrase, a malformed
\* payload and a failed download create and change no entry.
C27_EntryOnlyAfterDecrypt ==
  [][(obs'.last.cmd \in {"pull", "run"} /\ clock' # clock) =>
       \A d \in Devices : \A q \in DOMAIN configs :
         LET after == getKeyEntry(keyring'[d], q)
         IN  (after.found /\ after # getKeyEntry(keyring[d], q)) =>
               /\ d = obs'.last.dev
               /\ q = obs'.last.proj
               /\ obs'.last.dec = "ok"
               /\ decrypt(AfterColon(obs'.last.body), FromBase64(after.entry.key)).ok]_vars

\* A wrong passphrase was given at the prompt and the device has no entry.
C27_Witness ==
  /\ obs.last.cmd \in {"pull", "run"}
  /\ obs.last.prompted
  /\ obs.last.dec = "auth"
  /\ keyring[obs.last.dev] = <<>>

\* C28: when the decrypt of a pull or run has succeeded, the device holds, at
\* the end of the command, an entry of the project with the key that opened
\* the payload, whatever happened after the decryption.
C28_EntryKeptAfterDecrypt ==
  (obs.last.cmd \in {"pull", "run"} /\ obs.last.dec = "ok") =>
    LET e == getKeyEntry(keyring[obs.last.dev], obs.last.proj)
    IN  /\ e.found
        /\ decrypt(AfterColon(obs.last.body), FromBase64(e.entry.key)).ok

\* ------------------------------------------------ push/pull cycles of a file
\* One device pushes an env file and pulls it, then pushes the file the pull
\* wrote and pulls again, and so on; cx.files are the files the pulls wrote.
MaxHeaderLines == 3
MaxCycles == 2

HeaderLineSet ==
  {Blank, KV("A", "1"), Comment(FALSE, <<"note">>), Comment(TRUE, <<"rule">>)}

HeaderContents ==
  {Unlines(ls) : ls \in UNION {[1..n -> HeaderLineSet] : n \in 1..MaxHeaderLines}}

HeaderInit ==
  /\ SysInit
  /\ kx = KxIdle
  /\ \E content \in HeaderContents, stage \in Stages :
       cx = [pc |-> "header", stage |-> stage, content |-> content, files |-> <<>>,
             failed |-> FALSE]

\* push of the current file (push.ts lines 49-63), then pull: decrypt and
\* envContentWithHeader (part_003 lines 261-326).
HeaderPushPull ==
  /\ cx.pc = "header"
  /\ ~cx.failed
  /\ Len(cx.files) < MaxCycles
  /\ LET envContent == IF cx.files = <<>> THEN cx.content ELSE cx.files[Len(cx.files)]
         dataToUpload == pushPayload(RaceEntry(R2Project), envContent, <<"rand", 3>>)
         u == unlock(<<RaceEntry(R2Project)>>, R2Project, dataToUpload, <<"pass", 0>>)
     IN  cx' = IF u.out.ok
               THEN [cx EXCEPT !.files = Append(@, pulledFile(cx.stage, Len(@) + 1,
                                                            <<".env">>, u.out.plaintext))]
               ELSE [cx EXCEPT !.failed = TRUE]
  /\ UNCHANGED <<sysvars, kx>>

HeaderNext == HeaderPushPull

SpecHeader == HeaderInit /\ [][HeaderNext]_vars

\* What follows the header block in a file pull wrote.
BodyAfterHeader(file) ==
  SubSeq(Lines(file), Len(PullHeader("", 0, <<>>)) + 1, Len(Lines(file)))

\* C29: the file a pull writes has one PushEnv header block, and pushing it
\* and pulling it again gives the same lines after the header.
C29_HeadersDoNotAccumulate ==
  cx.pc = "header" =>
    /\ \A i \in 1..Len(cx.files) :
         \A j \in 1..Len(BodyAfterHeader(cx.files[i])) :
           ~IsPushEnvLine(BodyAfterHeader(cx.files[i])[j])
           \/ BodyAfterHeader(cx.files[i])[j] \in Range(Lines(cx.content))
    /\ \A i \in 2..Len(cx.files) :
         BodyAfterHeader(cx.files[i]) = BodyAfterHeader(cx.files[i - 1])

====
